---- MODULE Spec2Model ----
(***************************************************************************)
(* A model of coo.Coo (src/coo/coo.py): the sequential tweet() path with   *)
(* its delay/interval switches, and the schedule() path that fans the      *)
(* entries out to asyncio tasks on the instance's event loop.              *)
(***************************************************************************)
EXTENDS Integers, Sequences, FiniteSets, TLC

\* ------------------------------------------------------------------ bounds
MaxLen == 2     \* longest list handed to tweet() / schedule()
MaxWait == 2    \* largest wait in seconds, latest instant named by a date string
MaxSkew == 1    \* seconds that may pass while the tasks of one run start up

\* ----------------------------------------------------------- Python values
None == [t |-> "none"]
PyInt(n) == [t |-> "int", n |-> n]
PyStr(w) == [t |-> "str", w |-> w]                 \* w: the text, as tokens
DateStr(at) == [t |-> "str", date |-> at]          \* a datetime string naming instant at
PyTuple(items) == [t |-> "tuple", items |-> items]

IsStr(x) == x.t = "str"
IsTuple(x) == x.t = "tuple"
IsDate(x) == x.t = "str" /\ "date" \in DOMAIN x

\* Python truthiness, as used by "if delay", "if interval", "if template".
Truthy(x) ==
    CASE x.t = "none" -> FALSE
      [] x.t = "int" -> x.n # 0
      [] x.t = "tuple" -> x.items # <<>>
      [] IsDate(x) -> TRUE
      [] OTHER -> x.w # <<>>

\* len() of a tuple or of a string
PyLen(x) == IF IsTuple(x) THEN Len(x.items) ELSE IF IsDate(x) THEN 1 ELSE Len(x.w)

\* str() of a value, as tokens
PyToStr(x) ==
    CASE x.t = "int" -> <<ToString(x.n)>>
      [] x.t = "none" -> <<"None">>
      [] IsDate(x) -> <<"date", ToString(x.date)>>
      [] OTHER -> x.w

\* -------------------------------------------------------------- the inputs
MsgA == PyStr(<<"a">>)
MsgB == PyStr(<<"b">>)
MsgHello == PyStr(<<"hello">>)
Seven == PyInt(7)
Tpl == PyStr(<<"Note:", "$message">>)

Templates == {None, Tpl}
Waits == {None, PyInt(MaxWait)}                    \* delay / interval arguments
TweetElems == {MsgA, MsgB, Seven}

\* Waits in seconds, and datetime strings naming an instant that is already
\* reached at the call, one reached while the tasks start up, and a later one.
TimeSpecs == {PyInt(n) : n \in 1..MaxWait}
               \cup {DateStr(0), DateStr(MaxSkew), DateStr(MaxWait)}
GoodTuples == {PyTuple(<<ts, None, MsgA>>) : ts \in TimeSpecs}
                \cup {PyTuple(<<PyInt(1), Tpl, MsgA>>)}
ShortTuple == PyTuple(<<PyInt(1), None>>)
LongTuple == PyTuple(<<PyInt(1), None, MsgA, MsgA>>)
SchedElems == GoodTuples \cup {ShortTuple, LongTuple, MsgA}

ListsOf(S) == UNION {[1..n -> S] : n \in 0..MaxLen}

\* ------------------------------------------------------------------- state
VARIABLES
    preview,        \* self.preview
    delay_time,     \* self.delay_time
    interval_time,  \* self.interval_time
    loop_closed,    \* whether self.loop has been closed
    pc,             \* where the instance's caller is
    call,           \* the call in progress (or the last one): arguments, entry state
    idx,            \* tweet(): position of the for loop in updates
    tasks,          \* schedule(): the tasks created on the loop, in creation order
    clock,          \* seconds since the current schedule() call began
    log,            \* waits and publisher invocations of the current call, in order
    error           \* the exception the current/last call raised, "none" if none

vars == <<preview, delay_time, interval_time, loop_closed, pc, call, idx, tasks,
          clock, log, error>>

NoCall == [op |-> "none", updates |-> <<>>, delay |-> None, interval |-> None,
           template |-> None, delay_time0 |-> TRUE, interval_time0 |-> FALSE,
           loop_closed0 |-> FALSE]

Event(ev, i, text, ok) == [ev |-> ev, i |-> i, text |-> text, ok |-> ok, at |-> clock]

\* Coo.__init__
Init ==
    /\ preview \in BOOLEAN
    /\ delay_time = TRUE
    /\ interval_time = FALSE
    /\ loop_closed = FALSE
    /\ pc = "idle"
    /\ call = NoCall
    /\ idx = 0
    /\ tasks = <<>>
    /\ clock = 0
    /\ log = <<>>
    /\ error = "none"

\* ------------------------------------------------------------- str_update
\* The template's tokens with every $message replaced by the tokens of text
RECURSIVE Substitute(_, _)
Substitute(w, text) ==
    IF w = <<>> THEN <<>>
    ELSE (IF Head(w) = "$message" THEN text ELSE <<Head(w)>>)
            \o Substitute(Tail(w), text)

\* utils.tweet_template: string.Template substitution of $message
tweet_template(update, template) == PyStr(Substitute(template.w, PyToStr(update)))

\* The text str_update hands to print() / PostUpdate()
StrUpdateText(update, template) ==
    IF Truthy(template) THEN tweet_template(update, template) ELSE update

\* Whether the publisher call of str_update may raise: print() does not.
MayRaise == ~preview

\* A str_update that posts whatever the preview switch says.
StrUpdateEventPosts(i, update, template, ok) ==
    Event("post", i, StrUpdateText(update, template), ok)

\* The event str_update leaves: a print in preview mode, else a PostUpdate call.
StrUpdateEvent(i, update, template, ok) ==
    Event(IF preview THEN "print" ELSE "post", i, StrUpdateText(update, template), ok)

\* --------------------------------------------------------- delay, interval
\* The delay switch read with the wrong polarity.
DelayWaitsFlipped(delay) == Truthy(delay) /\ ~delay_time

\* Coo.delay: the guard of the delay wait
DelayWaits(delay) == Truthy(delay) /\ delay_time

\* The interval wait without the first-iteration switch.
IntervalWaitsAlways(interval) == Truthy(interval)

\* Coo.interval: the guard of the interval wait
IntervalWaits(interval) == Truthy(interval) /\ interval_time = TRUE

\* A switch that a call which did not wait arms again.
DelayTimeToggled(delay) == ~DelayWaits(delay)

\* Coo.delay: delay_time after the call, False once the delay was waited
DelayTimeAfter(delay) == IF DelayWaits(delay) THEN FALSE ELSE delay_time

\* A switch armed only by a run that was given an interval.
IntervalTimeIfGiven(interval) == IF Truthy(interval) THEN TRUE ELSE interval_time

\* Coo.interval: interval_time after the call, True whatever it was
IntervalTimeAfter(interval) == IF interval_time = FALSE THEN TRUE ELSE interval_time

\* ------------------------------------------------------------------ tweet
\* The isinstance check of tweet(): what it raises, "none" when it passes.
TweetCheck(updates) ==
    IF updates = <<>> THEN "IndexError"
    ELSE IF ~IsStr(updates[1]) THEN "TweetTypeError"
    ELSE "none"

\* tweet(): the input check and self.delay(delay, time_zone)
TweetCall(updates, delay, interval, template) ==
    /\ pc = "idle"
    /\ call' = [op |-> "tweet", updates |-> updates, delay |-> delay,
                interval |-> interval, template |-> template,
                delay_time0 |-> delay_time, interval_time0 |-> interval_time,
                loop_closed0 |-> loop_closed]
    /\ tasks' = <<>>
    /\ clock' = 0
    /\ error' = TweetCheck(updates)
    /\ IF TweetCheck(updates) # "none"
       THEN /\ log' = <<>>
            /\ pc' = "done"
            /\ idx' = 0
            /\ UNCHANGED delay_time
       ELSE /\ log' = IF DelayWaits(delay) THEN <<Event("delay", 0, delay, TRUE)>>
                      ELSE <<>>
            /\ delay_time' = DelayTimeAfter(delay)
            /\ pc' = "tweet_interval"
            /\ idx' = 1
    /\ UNCHANGED <<preview, interval_time, loop_closed>>

\* The list walked from its end.
TweetItemReversed(updates, i) == updates[Len(updates) - i + 1]

\* The element the for loop of tweet() hands to str_update at position i
TweetItem(updates, i) == updates[i]

\* tweet(): self.interval(interval) for the current item
TweetInterval ==
    /\ pc = "tweet_interval"
    /\ log' = IF IntervalWaits(call.interval)
              THEN Append(log, Event("interval", idx, call.interval, TRUE))
              ELSE log
    /\ interval_time' = IntervalTimeAfter(call.interval)
    /\ pc' = "tweet_update"
    /\ UNCHANGED <<preview, delay_time, loop_closed, call, idx, tasks, clock, error>>

\* A loop that catches the publisher's exception of one item and goes on.
TweetStrUpdateIsolated(ok) ==
    /\ pc = "tweet_update"
    /\ ok \/ MayRaise
    /\ log' = Append(log, StrUpdateEvent(idx, call.updates[idx], call.template, ok))
    /\ IF idx < Len(call.updates)
       THEN idx' = idx + 1 /\ pc' = "tweet_interval"
       ELSE idx' = idx /\ pc' = "done"
    /\ UNCHANGED <<preview, delay_time, interval_time, loop_closed, call, tasks, clock,
                   error>>

\* tweet(): self.str_update(update, template) for the current item; a raise of
\* the publisher leaves tweet(), a return moves the loop on or ends the call.
TweetStrUpdate(ok) ==
    /\ pc = "tweet_update"
    /\ ok \/ MayRaise
    /\ log' = Append(log, StrUpdateEvent(idx, TweetItem(call.updates, idx),
                                         call.template, ok))
    /\ IF ~ok
       THEN /\ error' = "PublishError"
            /\ pc' = "done"
            /\ UNCHANGED idx
       ELSE /\ UNCHANGED error
            /\ IF idx < Len(call.updates)
               THEN idx' = idx + 1 /\ pc' = "tweet_interval"
               ELSE idx' = idx /\ pc' = "done"
    /\ UNCHANGED <<preview, delay_time, interval_time, loop_closed, call, tasks, clock>>

\* --------------------------------------------------------------- schedule
\* utils.check_schedule_len: a schedule tuple must have exactly three items
check_schedule_len(msg) == PyLen(msg) = 3

\* A check that looks at the first tuple only.
LenCheckFirstOnly(custom_msgs) == ~check_schedule_len(custom_msgs[1])

\* async_tasks(): the check loop runs over set(custom_msgs)
LenCheckFails(custom_msgs) ==
    \E msg \in {custom_msgs[k] : k \in DOMAIN custom_msgs} : ~check_schedule_len(msg)

\* The posts with every repetition of an earlier post dropped.
LaunchDeduplicated(custom_msgs) ==
    LET keep == {k \in DOMAIN custom_msgs :
                   \A j \in 1..(k - 1) : custom_msgs[j] # custom_msgs[k]}
        pos(n) == CHOOSE k \in keep : Cardinality({j \in keep : j < k}) = n - 1
    IN  [n \in 1..Cardinality(keep) |-> custom_msgs[pos(n)]]

\* async_tasks(): the posts a task is created for, in creation order
LaunchList(custom_msgs) == custom_msgs

\* What schedule() raises before any task exists, "none" when tasks are created.
ScheduleCheck(updates) ==
    IF updates = <<>> THEN "IndexError"
    ELSE IF ~IsTuple(updates[1]) THEN "ScheduleError"
    ELSE IF loop_closed THEN "RuntimeError"
    ELSE IF LenCheckFails(updates) THEN "ScheduleError"
    ELSE "none"

NewTask(msg) == [msg |-> msg, state |-> "Pending", start |-> 0, seconds |-> 0,
                 deadline |-> 0, exc |-> "none"]

\* schedule() up to the point where async_tasks() awaits asyncio.wait(...)
ScheduleCall(updates) ==
    /\ pc = "idle"
    /\ call' = [op |-> "schedule", updates |-> updates, delay |-> None,
                interval |-> None, template |-> None,
                delay_time0 |-> delay_time, interval_time0 |-> interval_time,
                loop_closed0 |-> loop_closed]
    /\ log' = <<>>
    /\ clock' = 0
    /\ idx' = 0
    /\ error' = ScheduleCheck(updates)
    /\ IF ScheduleCheck(updates) # "none"
       THEN tasks' = <<>> /\ pc' = "done"
       ELSE /\ tasks' = [k \in DOMAIN LaunchList(updates) |->
                           NewTask(LaunchList(updates)[k])]
            /\ pc' = "schedule"
    /\ UNCHANGED <<preview, delay_time, interval_time, loop_closed>>

\* utils.parse_or_get: an int is the wait itself; a datetime string is resolved
\* against the current time and must lie in the future.
parse_or_get(spec, now) ==
    IF spec.t = "int" THEN [ok |-> TRUE, seconds |-> spec.n]
    ELSE IF spec.date > now THEN [ok |-> TRUE, seconds |-> spec.date - now]
    ELSE [ok |-> FALSE, seconds |-> 0]

\* One reading of the time for the whole run, taken by the first task and
\* reused by the others.
NowOfFirstTask == IF tasks[1].state = "Pending" THEN clock ELSE tasks[1].start

\* custom_updates(): the time parse_or_get(msg[0], time_zone) resolves against.
\* It is handed no reference time, so it reads the clock when the task calls it.
Now == clock

\* A sleep that returns at once.
SleepNone(now, seconds) == now

\* asyncio.sleep(seconds) called at instant now: when the task is woken
SleepDeadline(now, seconds) == now + seconds

Pending(k) == tasks[k].state = "Pending"
Waiting(k) == tasks[k].state = "Waiting"
Terminal(k) == tasks[k].state \in {"Completed", "Failed"}

\* The loop runs the first step of the tasks in creation order.
NextToStart(k) == Pending(k) /\ \A j \in 1..(k - 1) : ~Pending(j)

\* custom_updates() up to its await: resolve the time, then sleep
TaskStart(k) ==
    /\ pc = "schedule"
    /\ k \in DOMAIN tasks
    /\ NextToStart(k)
    /\ LET r == parse_or_get(tasks[k].msg.items[1], Now) IN
         tasks' = [tasks EXCEPT ![k] =
                     IF r.ok
                     THEN [@ EXCEPT !.state = "Waiting", !.start = clock,
                                    !.seconds = r.seconds,
                                    !.deadline = SleepDeadline(clock, r.seconds)]
                     ELSE [@ EXCEPT !.state = "Failed", !.start = clock,
                                    !.exc = "ScheduleError"]]
    /\ UNCHANGED <<preview, delay_time, interval_time, loop_closed, pc, call, idx,
                   clock, log, error>>

\* Time passes: a bounded while while the tasks start up (their first steps are
\* blocking code), then whenever the loop has no due timer and sleeps in its
\* selector until the earliest deadline.
Tick ==
    /\ pc = "schedule"
    /\ IF \E k \in DOMAIN tasks : Pending(k)
       THEN clock < MaxSkew
       ELSE /\ \E k \in DOMAIN tasks : Waiting(k)
            /\ \A k \in DOMAIN tasks : Waiting(k) => tasks[k].deadline > clock
    /\ clock' = clock + 1
    /\ UNCHANGED <<preview, delay_time, interval_time, loop_closed, pc, call, idx,
                   tasks, log, error>>

\* The loop wakes the due timer with the earliest deadline (ties in any order),
\* once every task has run its first step.
WakeNext(k) ==
    /\ Waiting(k)
    /\ tasks[k].deadline <= clock
    /\ \A j \in DOMAIN tasks : ~Pending(j)
    /\ \A j \in DOMAIN tasks : Waiting(j) => tasks[j].deadline >= tasks[k].deadline

\* custom_updates() after its await: str_update(update=msg[2], template=msg[1])
TaskWake(k, ok) ==
    /\ pc = "schedule"
    /\ k \in DOMAIN tasks
    /\ WakeNext(k)
    /\ ok \/ MayRaise
    /\ log' = Append(log, StrUpdateEvent(k, tasks[k].msg.items[3],
                                         tasks[k].msg.items[2], ok))
    /\ tasks' = [tasks EXCEPT ![k] =
                   IF ok THEN [@ EXCEPT !.state = "Completed"]
                   ELSE [@ EXCEPT !.state = "Failed", !.exc = "PublishError"]]
    /\ UNCHANGED <<preview, delay_time, interval_time, loop_closed, pc, call, idx,
                   clock, error>>

\* asyncio.wait(..., return_when=FIRST_COMPLETED)
WaitOverFirst == \E k \in DOMAIN tasks : tasks[k].state \in {"Completed", "Failed"}

\* A wait that is over only when every task has succeeded.
WaitOverAllCompleted == \A k \in DOMAIN tasks : tasks[k].state = "Completed"

\* asyncio.wait(..., return_when=ALL_COMPLETED): when async_tasks() resumes
WaitOver == \A k \in DOMAIN tasks : Terminal(k)

\* What a finished schedule() hands to its caller of the tasks' outcomes:
\* async_tasks() drops the (done, pending) of asyncio.wait and schedule() has
\* no return statement.
ScheduleOutcome == {}

\* A schedule() that puts the switches back as constructed when it is done.
ScheduleReturnRearming ==
    /\ pc = "schedule"
    /\ \A k \in DOMAIN tasks : tasks[k].state \in {"Completed", "Failed"}
    /\ loop_closed' = TRUE
    /\ delay_time' = TRUE
    /\ interval_time' = FALSE
    /\ pc' = "done"
    /\ UNCHANGED <<preview, call, idx, tasks, clock, log, error>>

\* A schedule() that leaves its loop open.
ScheduleReturnLoopOpen ==
    /\ pc = "schedule"
    /\ \A k \in DOMAIN tasks : tasks[k].state \in {"Completed", "Failed"}
    /\ pc' = "done"
    /\ UNCHANGED <<preview, delay_time, interval_time, loop_closed, call, idx, tasks,
                   clock, log, error>>

\* run_until_complete returns, then self.loop.close()
ScheduleReturn ==
    /\ pc = "schedule"
    /\ WaitOver
    /\ loop_closed' = TRUE
    /\ pc' = "done"
    /\ UNCHANGED <<preview, delay_time, interval_time, call, idx, tasks, clock, log,
                   error>>

\* A direct call of the public str_update(update, template)
StrUpdateCall(update, template, ok) ==
    /\ pc = "idle"
    /\ ok \/ MayRaise
    /\ call' = [op |-> "str_update", updates |-> <<update>>, delay |-> None,
                interval |-> None, template |-> template,
                delay_time0 |-> delay_time, interval_time0 |-> interval_time,
                loop_closed0 |-> loop_closed]
    /\ log' = <<StrUpdateEvent(1, update, template, ok)>>
    /\ error' = IF ok THEN "none" ELSE "PublishError"
    /\ tasks' = <<>>
    /\ clock' = 0
    /\ idx' = 0
    /\ pc' = "done"
    /\ UNCHANGED <<preview, delay_time, interval_time, loop_closed>>

\* The finished call is back at its caller (by return or by raise): its
\* arguments, tasks and result are gone, the instance's fields stay.
Return ==
    /\ pc = "done"
    /\ pc' = "idle"
    /\ call' = NoCall
    /\ idx' = 0
    /\ tasks' = <<>>
    /\ clock' = 0
    /\ log' = <<>>
    /\ error' = "none"
    /\ UNCHANGED <<preview, delay_time, interval_time, loop_closed>>

Next ==
    \/ \E u \in ListsOf(TweetElems), d \in Waits, i \in Waits, t \in Templates :
          TweetCall(u, d, i, t)
    \/ TweetInterval
    \/ \E ok \in BOOLEAN : TweetStrUpdate(ok)
    \/ \E u \in ListsOf(SchedElems) : ScheduleCall(u)
    \/ \E k \in 1..MaxLen : TaskStart(k)
    \/ Tick
    \/ \E k \in 1..MaxLen, ok \in BOOLEAN : TaskWake(k, ok)
    \/ ScheduleReturn
    \/ \E u \in {MsgA, MsgHello}, t \in Templates, ok \in BOOLEAN :
          StrUpdateCall(u, t, ok)
    \/ Return

Spec == Init /\ [][Next]_vars

\* The running loop: it runs every task that is ready, time passes while it
\* sleeps in its selector, every publisher call returns or raises, and
\* async_tasks() is resumed once asyncio.wait is over.
FairSpec ==
    /\ Spec
    /\ WF_vars(\E k \in 1..MaxLen : TaskStart(k))
    /\ WF_vars(Tick)
    /\ WF_vars(\E k \in 1..MaxLen, ok \in BOOLEAN : TaskWake(k, ok))
    /\ WF_vars(ScheduleReturn)

\* =================================================================== claims
IsPost(e) == e.ev \in {"post", "print"}
Posts == {p \in DOMAIN log : IsPost(log[p])}           \* publisher invocations
PostsOf(i) == {p \in Posts : log[p].i = i}
InSchedule == call.op = "schedule"
InTweet == call.op = "tweet"

\* An entry whose resolved time is not strictly after "now" when schedule() is called
PastEntry(e) ==
    /\ IsTuple(e) /\ PyLen(e) = 3
    /\ IsDate(e.items[1]) /\ e.items[1].date <= 0
HasPastEntry(updates) == \E k \in DOMAIN updates : PastEntry(updates[k])
HasBadLen(updates) == \E k \in DOMAIN updates : PyLen(updates[k]) # 3

\* C1 (as claimed): a batch holding an entry whose time is not in the future is
\* rejected with ScheduleError before any task is launched; nothing is published.
C1_PastBatchRejected ==
    (InSchedule /\ HasPastEntry(call.updates))
        => /\ tasks = <<>>
           /\ Posts = {}
           /\ (pc = "done" => error = "ScheduleError")

\* C2 (as claimed): equal tuples of one schedule() call share a single task, so
\* no two tasks of a run carry the same tuple.
C2_DuplicatesShareTask ==
    InSchedule => \A j, k \in DOMAIN tasks : tasks[j].msg = tasks[k].msg => j = k

\* C2 (amended): an admitted schedule() call creates one task per list position,
\* repetitions included, and every task that completes has invoked the
\* publisher exactly once: the same tuple twice is published twice.
C2_TaskPerListEntry ==
    (InSchedule /\ error = "none")
        => /\ Len(tasks) = Len(call.updates)
           /\ \A k \in DOMAIN tasks :
                 /\ tasks[k].msg = call.updates[k]
                 /\ (tasks[k].state = "Completed" => Cardinality(PostsOf(k)) = 1)

C2_Witness ==
    /\ InSchedule /\ pc = "done" /\ error = "none"
    /\ Len(call.updates) = 2 /\ call.updates[1] = call.updates[2]
    /\ \A k \in DOMAIN tasks : tasks[k].state = "Completed"
    /\ Cardinality(Posts) = 2

\* The case of C3: a non-empty list that starts with a tuple and holds an entry
\* whose length is not 3.
BadLenCase ==
    /\ InSchedule /\ call.updates # <<>>
    /\ IsTuple(call.updates[1]) /\ HasBadLen(call.updates)

C4_TweetTypeChecked ==
    (InTweet /\ (call.updates = <<>> \/ \E k \in DOMAIN call.updates :
                                             ~IsStr(call.updates[k])))
        => (pc = "done" /\ error = "TweetTypeError" /\ log = <<>>)

\* C5 (as claimed): schedule() raises ScheduleError when updates is empty or its
\* first element is no tuple, with no task created and nothing published.
C5_ShapeChecked ==
    (InSchedule /\ (call.updates = <<>> \/ ~IsTuple(call.updates[1])))
        => (pc = "done" /\ error = "ScheduleError" /\ tasks = <<>> /\ Posts = {})

\* A tweet() call that passed its input check
TweetAdmitted == InTweet /\ error \notin {"IndexError", "TweetTypeError"}
\* The instance was as constructed when the call began
Fresh == call.delay_time0 /\ ~call.interval_time0
PostLog == SelectSeq(log, IsPost)
\* The last publisher invocation before position p of the log (0 if none)
PrevPost(p) ==
    IF \E q \in Posts : q < p
    THEN CHOOSE q \in Posts : q < p /\ \A r \in Posts : r < p => r <= q
    ELSE 0
\* The interval waits between the previous publish and the publish at p
IntervalWaitsBefore(p) ==
    {q \in DOMAIN log : log[q].ev = "interval" /\ PrevPost(p) < q /\ q < p}

\* C6: in a tweet() run on a fresh instance with a delay requested, the delay
\* wait happens exactly once and before everything else of the run.
C6_DelayOnce ==
    (TweetAdmitted /\ Fresh /\ Truthy(call.delay))
        => /\ log # <<>>
           /\ \A p \in DOMAIN log : log[p].ev = "delay" <=> p = 1

C6_Witness ==
    /\ TweetAdmitted /\ Fresh /\ Truthy(call.delay) /\ pc = "done" /\ error = "none"
    /\ Len(call.updates) = 2 /\ Cardinality(Posts) = 2
    /\ log[1].ev = "delay"

\* C7 (as claimed): in any tweet() run with an interval requested, the first
\* publish follows no interval wait and every later publish follows exactly one.
C7_IntervalSpacingAnyRun ==
    (TweetAdmitted /\ Truthy(call.interval))
        => \A p \in Posts :
              Cardinality(IntervalWaitsBefore(p)) = IF log[p].i = 1 THEN 0 ELSE 1

\* C7 (amended): that holds of a run begun with interval_time = False; in a run
\* begun with the switch already armed every publish, the first included,
\* follows exactly one interval wait.
C7_IntervalSpacing ==
    (TweetAdmitted /\ Truthy(call.interval))
        => \A p \in Posts :
              /\ Cardinality(IntervalWaitsBefore(p))
                   = IF log[p].i = 1 /\ ~call.interval_time0 THEN 0 ELSE 1
              /\ \A q \in IntervalWaitsBefore(p) : log[q].i = log[p].i

C7_Witness ==
    /\ TweetAdmitted /\ Truthy(call.interval) /\ ~call.interval_time0
    /\ pc = "done" /\ error = "none"
    /\ Len(call.updates) = 2 /\ Cardinality(Posts) = 2
    /\ Cardinality({q \in DOMAIN log : log[q].ev = "interval"}) = 1

\* The tasks of a run whose time was resolved (they slept, or are sleeping)
Resolved(k) == tasks[k].state # "Pending" /\ tasks[k].exc # "ScheduleError"

\* C8: schedule() returns only when every launched task is Completed or Failed,
\* and by then every task whose own time resolved has invoked the publisher
\* once, no earlier than its own wait allows, whatever became of its siblings.
C8_AllTasksFinish ==
    (InSchedule /\ pc = "done")
        => \A k \in DOMAIN tasks :
              /\ tasks[k].state \in {"Completed", "Failed"}
              /\ Resolved(k)
                   => /\ Cardinality(PostsOf(k)) = 1
                      /\ \A p \in PostsOf(k) :
                            log[p].at >= tasks[k].start + tasks[k].seconds

C8_Witness ==
    /\ InSchedule /\ pc = "done" /\ Len(tasks) = 2
    /\ \E j, k \in DOMAIN tasks :
          /\ tasks[j].state = "Failed" /\ tasks[k].state = "Completed"
          /\ \E p \in PostsOf(j), q \in PostsOf(k) : p < q /\ log[q].at > log[p].at

\* Task a has published before task b
PublishedBefore(a, b) == \E p \in PostsOf(a), q \in PostsOf(b) : p < q

\* C9 (as claimed): of two tasks of a run, the one with the strictly shorter
\* wait has published before the other publishes.
C9_ShorterWaitFirst ==
    InSchedule
        => \A a, b \in DOMAIN tasks :
              (Resolved(a) /\ Resolved(b) /\ tasks[a].seconds < tasks[b].seconds
                 /\ PostsOf(b) # {})
                  => PublishedBefore(a, b)

\* C9 (amended): that holds when the task with the shorter wait began waiting
\* no later than the other.
C9_ShorterWaitFirstSameStart ==
    InSchedule
        => \A a, b \in DOMAIN tasks :
              (Resolved(a) /\ Resolved(b) /\ tasks[a].seconds < tasks[b].seconds
                 /\ tasks[a].start <= tasks[b].start /\ PostsOf(b) # {})
                  => PublishedBefore(a, b)

C9_Witness ==
    /\ InSchedule /\ pc = "done" /\ Len(tasks) = 2
    /\ Resolved(1) /\ Resolved(2)
    /\ tasks[2].seconds < tasks[1].seconds /\ tasks[2].start = tasks[1].start
    /\ PublishedBefore(2, 1)

\* C10: tweet() publishes updates[1], updates[2], ... in that order, each at
\* most once; the interval step of item j comes after the publishes of all the
\* items before it; a run that ends without error has published every item.
C10_SequentialInOrder ==
    TweetAdmitted
        => /\ \A n \in DOMAIN PostLog :
                 /\ PostLog[n].i = n
                 /\ PostLog[n].text = StrUpdateText(call.updates[n], call.template)
           /\ \A q \in DOMAIN log :
                 log[q].ev = "interval"
                     => Cardinality({p \in Posts : p < q}) = log[q].i - 1
           /\ (pc = "done" /\ error = "none") => Len(PostLog) = Len(call.updates)

C10_Witness ==
    /\ TweetAdmitted /\ pc = "done" /\ error = "none"
    /\ Len(call.updates) = 2 /\ call.updates[1] # call.updates[2]
    /\ Truthy(call.interval) /\ Len(PostLog) = 2

\* C11: on an instance built with preview on, no call ever reaches PostUpdate:
\* every update is printed, no call ends in a publish error, and
\* str_update(update, None) prints exactly the update it was given.
C11_PreviewNeverPosts ==
    preview
        => /\ \A p \in DOMAIN log : log[p].ev # "post"
           /\ error # "PublishError"
           /\ (call.op = "str_update" /\ ~Truthy(call.template))
                 => log = <<[ev |-> "print", i |-> 1, text |-> call.updates[1],
                             ok |-> TRUE, at |-> 0]>>

C11_Witness ==
    /\ preview /\ call.op = "str_update" /\ call.template = None
    /\ call.updates = <<MsgHello>>
    /\ Len(log) = 1 /\ log[1].ev = "print" /\ log[1].text = PyStr(<<"hello">>)

\* C12 (as claimed): when schedule() is back at its caller, every publish error
\* of a task has reached the caller, as the raised exception or in the outcome
\* returned, together with the entry it came from.
C12_FailureSurfaced ==
    (InSchedule /\ pc = "done")
        => \A k \in DOMAIN tasks :
              tasks[k].exc = "PublishError"
                  => \/ error = "PublishError"
                     \/ [entry |-> tasks[k].msg, exc |-> "PublishError"]
                           \in ScheduleOutcome

\* C13 (as claimed): in a schedule() run whose entries all name a time ahead of
\* the call, every entry has its own task, no task has invoked the publisher
\* before its wait was over or more than once, and when the run is over every
\* task has invoked it exactly once.
C13_OnePublishPerEntry ==
    (InSchedule /\ error = "none" /\ ~HasPastEntry(call.updates))
        => /\ Len(tasks) = Len(call.updates)
           /\ \A k \in DOMAIN tasks :
                 /\ tasks[k].msg = call.updates[k]
                 /\ Cardinality(PostsOf(k)) <= 1
                 /\ \A p \in PostsOf(k) :
                       /\ tasks[k].state \in {"Completed", "Failed"}
                       /\ log[p].at >= tasks[k].start + tasks[k].seconds
                 /\ pc = "done" => Cardinality(PostsOf(k)) = 1

\* Tasks a and b of the run resolved the same datetime string
SameDate(a, b) ==
    /\ Resolved(a) /\ Resolved(b)
    /\ IsDate(tasks[a].msg.items[1]) /\ tasks[a].msg.items[1] = tasks[b].msg.items[1]

\* C14 (as claimed): two entries of a run with the same time spec get the same
\* wait, whenever their tasks start.
C14_SameSpecSameWait ==
    InSchedule
        => \A a, b \in DOMAIN tasks : SameDate(a, b) => tasks[a].seconds = tasks[b].seconds

\* C14 (amended): the wait of a datetime entry is measured from the moment its
\* own task starts, so its timer is set to the instant the string names, and
\* the waits of two entries with the same string differ by exactly the time
\* that passed between the starts of their tasks.
C14_WaitFromOwnStart ==
    InSchedule
        => /\ \A k \in DOMAIN tasks :
                 (Resolved(k) /\ IsDate(tasks[k].msg.items[1]))
                     => /\ tasks[k].seconds = tasks[k].msg.items[1].date - tasks[k].start
                        /\ tasks[k].deadline = tasks[k].msg.items[1].date
           /\ \A a, b \in DOMAIN tasks :
                 SameDate(a, b)
                     => tasks[a].seconds - tasks[b].seconds
                          = tasks[b].start - tasks[a].start

C14_Witness ==
    /\ InSchedule /\ Len(tasks) = 2 /\ SameDate(1, 2)
    /\ tasks[1].start < tasks[2].start
    /\ tasks[1].seconds > tasks[2].seconds
    /\ tasks[1].deadline = tasks[2].deadline

\* What C15 says of the run in progress: with the delay already consumed no
\* delay wait is made, a run given a delay leaves it consumed, and with the
\* interval already armed the first publish too follows an interval wait.
SwitchesAtWork ==
    /\ (InTweet /\ ~call.delay_time0) => \A p \in DOMAIN log : log[p].ev # "delay"
    /\ (TweetAdmitted /\ Truthy(call.delay)) => ~delay_time
    /\ (TweetAdmitted /\ call.interval_time0 /\ Truthy(call.interval))
          => \A p \in Posts : log[p].i = 1 => IntervalWaitsBefore(p) # {}

\* C15: no step of the instance turns delay_time back to True or interval_time
\* back to False, so a later tweet() makes no delay wait once the delay was
\* consumed and waits the interval even before its first message.
C15_SwitchesNeverReset ==
    /\ [][(~delay_time => ~delay_time') /\ (interval_time => interval_time')]_vars
    /\ []SwitchesAtWork

C15_Witness ==
    /\ TweetAdmitted /\ pc = "done" /\ error = "none"
    /\ ~call.delay_time0 /\ call.interval_time0
    /\ Truthy(call.delay) /\ Truthy(call.interval)
    /\ Len(call.updates) = 2 /\ Cardinality(Posts) = 2
    /\ log[1].ev = "interval" /\ log[1].i = 1

\* C16: once interval() has run for the first item of an admitted tweet() the
\* interval switch is armed, with or without an interval argument, and a run
\* given no interval makes no interval wait.
C16_IntervalArmedAfterFirstItem ==
    /\ (TweetAdmitted /\ pc \in {"tweet_update", "done"}) => interval_time
    /\ (TweetAdmitted /\ ~Truthy(call.interval))
          => \A p \in DOMAIN log : log[p].ev # "interval"

C16_Witness ==
    /\ TweetAdmitted /\ pc = "done" /\ error = "none"
    /\ call.interval = None /\ ~call.interval_time0 /\ interval_time
    /\ Len(call.updates) = 2 /\ Cardinality(Posts) = 2

\* C17: a schedule() call, accepted or rejected, and every step of its tasks
\* leave delay_time and interval_time as they were when it was called; only
\* steps of tweet() write them.
C17_ScheduleKeepsSwitches ==
    /\ [](InSchedule => /\ delay_time = call.delay_time0
                         /\ interval_time = call.interval_time0)
    /\ [][(delay_time' # delay_time \/ interval_time' # interval_time)
             => (call.op = "tweet" \/ call'.op = "tweet")]_vars

C17_Witness ==
    /\ InSchedule /\ pc = "done" /\ error = "none"
    /\ Len(tasks) = 2 /\ \E k \in DOMAIN tasks : tasks[k].state = "Completed"
    /\ ~delay_time /\ interval_time

\* Task k, waiting now, is no longer waiting after the step
LeavesWaiting(k) ==
    Waiting(k) /\ (k \notin DOMAIN tasks' \/ tasks'[k].state # "Waiting")

\* Task k's wait was over and the step is its call of the publisher
WokenToPublish(k) ==
    /\ clock >= tasks[k].start + tasks[k].seconds
    /\ k \in DOMAIN tasks' /\ tasks'[k].state \in {"Completed", "Failed"}
    /\ Len(log') = Len(log) + 1
    /\ IsPost(log'[Len(log')]) /\ log'[Len(log')].i = k

\* C18: a schedule() run that launched its tasks comes back to its caller with
\* every task Completed or Failed, and a waiting task stops waiting only by
\* its wait being over and its publish being made.
C18_RunTerminates ==
    /\ (pc = "schedule") ~> (pc = "done" /\ \A k \in DOMAIN tasks : Terminal(k))
    /\ [][\A k \in DOMAIN tasks : LeavesWaiting(k) => WokenToPublish(k)]_vars

C18_Witness ==
    /\ InSchedule /\ pc = "done" /\ Len(tasks) = 2
    /\ \A k \in DOMAIN tasks : Terminal(k) /\ Resolved(k)
    /\ tasks[1].deadline # tasks[2].deadline
    /\ \E k \in DOMAIN tasks : tasks[k].exc = "PublishError"

\* C19: tasks are launched only on an open loop and the run that launched them
\* closes it for good, so later calls with a tuple first fail on the closed
\* loop with nothing launched or published; a call rejected by the check of
\* its first element leaves the loop as it was.
C19_LoopClosedByFirstRun ==
    /\ [](InSchedule
            => /\ tasks # <<>> => ~call.loop_closed0
               /\ (pc = "done" /\ tasks # <<>>) => loop_closed
               /\ (call.loop_closed0 /\ call.updates # <<>> /\ IsTuple(call.updates[1]))
                     => (pc = "done" /\ error = "RuntimeError"
                           /\ tasks = <<>> /\ Posts = {})
               /\ (call.updates = <<>> \/ ~IsTuple(call.updates[1]))
                     => loop_closed = call.loop_closed0)
    /\ [][loop_closed => loop_closed']_vars

C19_Witness ==
    /\ InSchedule /\ call.loop_closed0 /\ error = "RuntimeError"
    /\ Len(call.updates) = 2 /\ ~HasBadLen(call.updates)
    /\ ~HasPastEntry(call.updates)

\* C20: when the publisher raises for updates[k] in tweet(), the call ends there
\* with that error: the items before k are published, in order, nothing of the
\* items after k is waited for or published, the delay is consumed if one was
\* given and the interval switch is armed.
C20_PublishFailureEndsTweet ==
    (InTweet /\ \E p \in Posts : ~log[p].ok)
        => /\ pc = "done" /\ error = "PublishError"
           /\ ~log[Len(log)].ok /\ IsPost(log[Len(log)]) /\ log[Len(log)].i = idx
           /\ \A p \in 1..(Len(log) - 1) : log[p].ok /\ log[p].i <= idx
           /\ Len(PostLog) = idx
           /\ \A n \in DOMAIN PostLog :
                 /\ PostLog[n].i = n
                 /\ PostLog[n].text = StrUpdateText(call.updates[n], call.template)
           /\ interval_time
           /\ delay_time = (call.delay_time0 /\ ~Truthy(call.delay))

C20_Witness ==
    /\ InTweet /\ pc = "done" /\ error = "PublishError"
    /\ Len(call.updates) = 2 /\ idx = 1 /\ Cardinality(Posts) = 1
    /\ Truthy(call.delay) /\ Truthy(call.interval) /\ call.delay_time0
    /\ ~delay_time /\ interval_time
====
